---- MODULE Spec2Model ----
(***************************************************************************)
(* Model of the OAuth session hook (useOAuth), the push-subscription hook  *)
(* (usePush2Web), the component that coordinates them (Push2WebManager),   *)
(* the embedded login button (LoginKit) and the server's OAuth endpoint of *)
(* smile-meter-offline-pushtoweb.                                          *)
(*                                                                         *)
(* The specifications share the variables:                                 *)
(*   SpecAuth  the useOAuth hook driven through its exported operations    *)
(*   SpecPush  the usePush2Web hook driven through its exported operations *)
(*   Spec      Push2WebManager: both hooks, the auto-subscribe effect,     *)
(*             the login callback, retry and logout                        *)
(*   SpecLoad  a page load of either build of useOAuth                     *)
(*   SpecKit   the LoginKit component in either of its builds              *)
(*   SpecServe the OAuth endpoint in each of its three handlers            *)
(***************************************************************************)
EXTENDS Naturals, Sequences, FiniteSets, TLC

(***************************************************************************)
(* Bounds of the model.                                                    *)
(***************************************************************************)
\* popup flows started between two page loads
MaxFlows == 2
\* popup flows started under Push2WebManager
MaxUIFlows == 1
\* invocations of the provider's subscribe
MaxSubscribeCalls == 2
\* timers (delayed subscribe, reconnect delay) pending at one time
MaxTimers == 1

(***************************************************************************)
(* Values.                                                                 *)
(***************************************************************************)
\* JavaScript null / undefined / an absent field
NULL == "NULL"
Tokens == {"T1"}
Users == {"alice"}
ProviderErrors == {"access_denied"}
Origins == {"same", "other"}
MessageTypes == {"SNAPCHAT_OAUTH_SUCCESS", "SNAPCHAT_OAUTH_ERROR", "OTHER"}

\* String(v) as sessionStorage.setItem applies it to its value
ToStorageString(v) == IF v = NULL THEN "undefined" ELSE v

\* JSON.stringify of a user object
JSONstringify(u) == IF u = "alice" THEN "{alice}" ELSE "null"

JSONparses(s) == s \in {"{alice}", "null"}

\* JSON.parse of a stored string that parses
JSONparse(s) == IF s = "{alice}" THEN "alice" ELSE NULL

\* a stored user entry JSON.parse throws on
CorruptJSON == "{alice"

\* JavaScript truthiness of a string-or-null value
Truthy(v) == v # NULL /\ v # ""

VARIABLES
    auth,          \* useOAuth state: isAuthenticated, accessToken, user, isLoading, error
    sdkReady,      \* useOAuth sdkReady
    config,        \* VITE_SNAPCHAT_CLIENT_ID and VITE_SNAPCHAT_REDIRECT_URI are both set
    storage,       \* sessionStorage: snap_oauth_token, snap_oauth_user, snapchat_oauth_state
    flows,         \* one record per loginViaPopup call that opened a popup
    openWin,       \* the open window named 'snapchat-oauth' (0: none)
    status,        \* usePush2Web status: available, subscribed, session, repository, error
    connectionState, \* usePush2Web connectionState
    lastLensReceived, \* usePush2Web lastLensReceived (null: every field NULL)
    pushMounted,   \* the component that uses usePush2Web is mounted
    push2WebRef,   \* push2WebRef.current holds a Push2Web instance
    subscriptionRef, \* subscriptionRef.current: 0 (null) or the handle held
    eventListenersSetup, \* eventListenersSetup.current
    provider,      \* what the Push2Web library has been asked to do
    returned,      \* the value the last subscribe call resolved to
    timers,        \* pending setTimeout callbacks that will call subscribe
    props,         \* Push2WebManager props: cameraKitSession, lensRepository
    renderPending, \* Push2WebManager state changed: a render and its effects are due
    loginKit,      \* the LoginKit button: mounted, the handleLogin closure it holds
    flowLog,       \* per popup flow, what happened to it (kept by SpecAuth)
    called,        \* the last call to usePush2Web or to a handler (kept by SpecPush);
                   \* under Spec, the subscribe call of the last run of the
                   \* auto-subscribe effect and what it resolved to
    hook,          \* SpecLoad: the build of useOAuth the page runs
    mounted,       \* SpecLoad: the hook has mounted and its effects have run
    url,           \* window.location.search: oauth_success, access_token, user_info, error
    oauth,         \* redirect useOAuth state: isLoggedIn, accessToken, user, isLoading, error
    oauthStore,    \* sessionStorage of the redirect build: oauth_token, oauth_user
    loaded,        \* what the last mount read: the query and the storage (kept by SpecLoad)
    kit,           \* SpecKit: the LoginKit component, its pending work and its onLogin calls
    server         \* SpecServe: the OAuth endpoint, the browser's oauth_state cookie, the last request

authVars == <<auth, sdkReady, config, storage, flows, openWin>>

pushVars == <<status, connectionState, lastLensReceived, pushMounted, push2WebRef,
              subscriptionRef, eventListenersSetup, provider, returned, timers>>

uiVars == <<props, renderPending, loginKit, flowLog, called>>

loadVars == <<hook, mounted, url, oauth, oauthStore, loaded>>

vars == <<auth, sdkReady, config, storage, flows, openWin,
          status, connectionState, lastLensReceived, pushMounted, push2WebRef,
          subscriptionRef, eventListenersSetup, provider, returned, timers,
          props, renderPending, loginKit, flowLog, called,
          hook, mounted, url, oauth, oauthStore, loaded, kit, server>>

(***************************************************************************)
(* useOAuth: states written by setState.                                   *)
(***************************************************************************)
InitialState ==
    [isAuthenticated |-> FALSE, accessToken |-> NULL, user |-> NULL,
     isLoading |-> FALSE, error |-> NULL]

RestoredState(savedToken, savedUser) ==
    [isAuthenticated |-> TRUE, accessToken |-> savedToken,
     user |-> JSONparse(savedUser), isLoading |-> FALSE, error |-> NULL]

SuccessState(access_token, user_info) ==
    [isAuthenticated |-> TRUE, accessToken |-> access_token,
     user |-> user_info, isLoading |-> FALSE, error |-> NULL]

ErrorState(prev, error) ==
    [prev EXCEPT !.isLoading = FALSE, !.error = error]

\* a poll tick that records the cancellation but leaves isLoading set
CancelledStateKeepsLoading(prev) ==
    [prev EXCEPT !.error = "Login cancelled"]

CancelledState(prev) ==
    [prev EXCEPT !.isLoading = FALSE, !.error = "Login cancelled"]

\* a logout that resets the session but keeps the error
LoggedOutStateKeepsError ==
    [auth EXCEPT !.isAuthenticated = FALSE, !.accessToken = NULL, !.user = NULL,
                 !.isLoading = FALSE]

LoggedOutState ==
    [isAuthenticated |-> FALSE, accessToken |-> NULL, user |-> NULL,
     isLoading |-> FALSE, error |-> NULL]

canLogin == sdkReady /\ ~auth.isLoading

EmptyStorage == [token |-> NULL, user |-> NULL, state |-> NULL]

\* a restore effect whose catch branch leaves the stored entries in place
RestoreSessionKeepsEntries(st) ==
    IF Truthy(st.token) /\ Truthy(st.user) /\ JSONparses(st.user)
    THEN [auth |-> RestoredState(st.token, st.user), storage |-> st]
    ELSE [auth |-> InitialState, storage |-> st]

\* the session-restore effect, run once when the hook mounts
RestoreSession(st) ==
    IF Truthy(st.token) /\ Truthy(st.user)
    THEN IF JSONparses(st.user)
         THEN [auth |-> RestoredState(st.token, st.user), storage |-> st]
         ELSE [auth |-> InitialState,
               storage |-> [st EXCEPT !.token = NULL, !.user = NULL]]
    ELSE [auth |-> InitialState, storage |-> st]

(***************************************************************************)
(* useOAuth: the popup flow.  A flow record is what one loginViaPopup call *)
(* leaves behind: its message listener, its closed-poll interval and the   *)
(* popup it holds.                                                         *)
(***************************************************************************)
NewFlow(win) ==
    [listener |-> TRUE, timer |-> TRUE, win |-> win]

\* window.open(url, 'snapchat-oauth', ...): the window of that name if it is
\* open, a new window if not
OpenedWindow ==
    IF openWin # 0 THEN openWin
    ELSE CHOOSE n \in 1..(MaxFlows + 1) : \A f \in 1..Len(flows) : flows[f].win # n

\* popup.closed, as flow f reads it in world w
PopupClosed(w, f) == w.flows[f].win # w.openWin

\* popup.close() by flow f
ClosePopup(w, f) == IF w.flows[f].win = w.openWin THEN 0 ELSE w.openWin

World == [auth |-> auth, storage |-> storage, flows |-> flows, openWin |-> openWin]

\* messageHandler of flow f, success branch
OnSuccessMessage(w, f, m) ==
    [w EXCEPT !.flows[f].listener = FALSE,
              !.openWin = ClosePopup(w, f),
              !.storage = IF m.user_info # NULL
                          THEN [@ EXCEPT !.token = ToStorageString(m.access_token),
                                         !.user = JSONstringify(m.user_info)]
                          ELSE @,
              !.auth = SuccessState(m.access_token, m.user_info)]

\* an error branch that leaves the popup open
OnErrorMessageKeepsPopup(w, f, m) ==
    [w EXCEPT !.flows[f].listener = FALSE,
              !.auth = ErrorState(@, m.error)]

\* messageHandler of flow f, error branch
OnErrorMessage(w, f, m) ==
    [w EXCEPT !.flows[f].listener = FALSE,
              !.openWin = ClosePopup(w, f),
              !.auth = ErrorState(@, m.error)]

\* a messageHandler that does not look at the origin of the event
messageHandlerAnyOrigin(w, f, m) ==
    IF m.type = "SNAPCHAT_OAUTH_SUCCESS" THEN OnSuccessMessage(w, f, m)
    ELSE IF m.type = "SNAPCHAT_OAUTH_ERROR" THEN OnErrorMessage(w, f, m)
    ELSE w

messageHandler(w, f, m) ==
    IF m.origin # "same" THEN w
    ELSE IF m.type = "SNAPCHAT_OAUTH_SUCCESS" THEN OnSuccessMessage(w, f, m)
    ELSE IF m.type = "SNAPCHAT_OAUTH_ERROR" THEN OnErrorMessage(w, f, m)
    ELSE w

\* the window dispatches a message event to every registered listener, in the
\* order of registration
RECURSIVE Dispatch(_, _, _)
Dispatch(w, f, m) ==
    IF f > Len(w.flows) THEN w
    ELSE Dispatch(IF w.flows[f].listener THEN messageHandler(w, f, m) ELSE w, f + 1, m)

\* one tick of flow f's setInterval callback when it finds the popup closed
checkClosed(w, f) ==
    [w EXCEPT !.flows[f].timer = FALSE,
              !.flows[f].listener = FALSE,
              !.auth = CancelledState(@)]

Messages ==
    [origin : Origins, type : MessageTypes, access_token : Tokens \cup {NULL},
     user_info : Users \cup {NULL}, error : ProviderErrors]

SetWorld(w) ==
    /\ auth' = w.auth
    /\ storage' = w.storage
    /\ flows' = w.flows
    /\ openWin' = w.openWin

(***************************************************************************)
(* useOAuth: operations and events.                                        *)
(***************************************************************************)
\* window.snapKitInit fires
SdkLoaded ==
    /\ ~sdkReady
    /\ sdkReady' = TRUE
    /\ UNCHANGED <<auth, config, storage, flows, openWin>>

\* script.onerror fires
SdkLoadFailed ==
    /\ ~sdkReady
    /\ auth' = [auth EXCEPT !.error = "Failed to load Snapchat SDK"]
    /\ UNCHANGED <<sdkReady, config, storage, flows, openWin>>

\* a loginViaPopup that registers its listener and its poll before it looks
\* at what window.open returned
loginViaPopupRegistersFirst(blocked) ==
    /\ ~auth.isAuthenticated
    /\ canLogin
    /\ Len(flows) < MaxFlows
    /\ IF ~config
       THEN /\ auth' = [auth EXCEPT !.error = "Missing OAuth configuration"]
            /\ UNCHANGED <<storage, flows, openWin>>
       ELSE /\ storage' = [storage EXCEPT !.state = "S"]
            /\ flows' = Append(flows, NewFlow(IF blocked THEN 0 ELSE OpenedWindow))
            /\ IF blocked
               THEN /\ auth' = [auth EXCEPT !.isLoading = FALSE, !.error = "Popup blocked"]
                    /\ UNCHANGED openWin
               ELSE /\ auth' = [auth EXCEPT !.isLoading = TRUE, !.error = NULL]
                    /\ openWin' = OpenedWindow
    /\ UNCHANGED <<sdkReady, config>>

\* loginViaPopup, called from the popup-login button: the button is rendered
\* while the session is not authenticated and canLogin, and is disabled while
\* isLoading
loginViaPopup(blocked) ==
    /\ ~auth.isAuthenticated
    /\ canLogin
    /\ Len(flows) < MaxFlows
    /\ IF ~config
       THEN /\ auth' = [auth EXCEPT !.error = "Missing OAuth configuration"]
            /\ UNCHANGED <<storage, flows, openWin>>
       ELSE /\ storage' = [storage EXCEPT !.state = "S"]
            /\ IF blocked
               THEN /\ auth' = [auth EXCEPT !.isLoading = FALSE, !.error = "Popup blocked"]
                    /\ UNCHANGED <<flows, openWin>>
               ELSE /\ auth' = [auth EXCEPT !.isLoading = TRUE, !.error = NULL]
                    /\ flows' = Append(flows, NewFlow(OpenedWindow))
                    /\ openWin' = OpenedWindow
    /\ UNCHANGED <<sdkReady, config>>

LoginViaPopup == \E blocked \in BOOLEAN : loginViaPopup(blocked)

\* a message event arrives at the window
PopupMessage(m) ==
    /\ \E f \in 1..Len(flows) : flows[f].listener
    /\ SetWorld(Dispatch(World, 1, m))
    /\ UNCHANGED <<sdkReady, config>>

\* the closed-poll interval of flow f ticks and finds the popup closed
PollTick(f) ==
    /\ flows[f].timer
    /\ PopupClosed(World, f)
    /\ SetWorld(checkClosed(World, f))
    /\ UNCHANGED <<sdkReady, config>>

PollTicks == \E f \in 1..Len(flows) : PollTick(f)

\* the user closes the popup window
UserClosesPopup ==
    /\ openWin # 0
    /\ openWin' = 0
    /\ UNCHANGED <<auth, sdkReady, config, storage, flows>>

logout ==
    /\ auth' = LoggedOutState
    /\ storage' = [storage EXCEPT !.token = NULL, !.user = NULL]
    /\ UNCHANGED <<sdkReady, config, flows, openWin>>

\* a clearError that also ends the loading state
clearErrorEndsLoading ==
    /\ auth' = [auth EXCEPT !.error = NULL, !.isLoading = FALSE]
    /\ UNCHANGED <<sdkReady, config, storage, flows, openWin>>

clearError ==
    /\ auth' = [auth EXCEPT !.error = NULL]
    /\ UNCHANGED <<sdkReady, config, storage, flows, openWin>>

\* the page is reloaded: listeners and timers go with the old document, the
\* hook mounts again and restores the session from sessionStorage
Reload ==
    /\ auth' = RestoreSession(storage).auth
    /\ storage' = RestoreSession(storage).storage
    /\ sdkReady' = FALSE
    /\ flows' = <<>>
    /\ UNCHANGED <<config, openWin>>

InitialStorages ==
    { EmptyStorage,
      [token |-> "T1", user |-> "{alice}", state |-> NULL],
      [token |-> "T1", user |-> CorruptJSON, state |-> NULL],
      [token |-> "T1", user |-> NULL, state |-> NULL] }

InitAuthVars ==
    /\ config \in BOOLEAN
    /\ \E st \in InitialStorages :
          /\ auth = RestoreSession(st).auth
          /\ storage = RestoreSession(st).storage
    /\ sdkReady = FALSE
    /\ flows = <<>>
    /\ openWin = 0

(***************************************************************************)
(* usePush2Web.  The hook's state and refs are gathered in a record so     *)
(* that an operation that calls another (subscribe calls                   *)
(* initializePush2Web, reconnect calls unsubscribe) is one operator        *)
(* applied to the result of the other.                                     *)
(***************************************************************************)
SessionHandles == {NULL, "session"}
RepositoryHandles == {NULL, "repository"}
ConstructError == "Push2Web constructor failed"
RejectError == "subscription rejected"
PushErrorEvents == {"transport error"}

InitialStatus ==
    [available |-> FALSE, subscribed |-> FALSE, session |-> FALSE,
     repository |-> FALSE, error |-> NULL]

InitialProvider ==
    [constructed |-> 0, listeners |-> 0, calls |-> 0, live |-> {}]

PushWorld ==
    [status |-> status, connectionState |-> connectionState,
     lastLensReceived |-> lastLensReceived, mounted |-> pushMounted,
     push2WebRef |-> push2WebRef, subscriptionRef |-> subscriptionRef,
     eventListenersSetup |-> eventListenersSetup, provider |-> provider,
     returned |-> returned]

SetPush(w) ==
    /\ status' = w.status
    /\ connectionState' = w.connectionState
    /\ lastLensReceived' = w.lastLensReceived
    /\ pushMounted' = w.mounted
    /\ push2WebRef' = w.push2WebRef
    /\ subscriptionRef' = w.subscriptionRef
    /\ eventListenersSetup' = w.eventListenersSetup
    /\ provider' = w.provider
    /\ returned' = w.returned

\* as SetPush, for a caller that drops the promise subscribe returns
SetPushDroppingResult(w) ==
    /\ status' = w.status
    /\ connectionState' = w.connectionState
    /\ lastLensReceived' = w.lastLensReceived
    /\ pushMounted' = w.mounted
    /\ push2WebRef' = w.push2WebRef
    /\ subscriptionRef' = w.subscriptionRef
    /\ eventListenersSetup' = w.eventListenersSetup
    /\ provider' = w.provider
    /\ UNCHANGED returned

\* an initializePush2Web that does not look at push2WebRef.current first
initializePush2WebAgain(w, constructThrows) ==
    IF constructThrows
    THEN [w EXCEPT !.status = [@ EXCEPT !.available = FALSE, !.error = ConstructError]]
    ELSE [w EXCEPT !.provider = [@ EXCEPT !.constructed = @ + 1,
                                          !.listeners = IF w.eventListenersSetup
                                                        THEN @ ELSE @ + 3],
                   !.eventListenersSetup = TRUE,
                   !.push2WebRef = TRUE,
                   !.status = [@ EXCEPT !.available = TRUE, !.error = NULL]]

\* initializePush2Web; constructThrows: new Push2Web() throws
initializePush2Web(w, constructThrows) ==
    IF w.push2WebRef THEN w
    ELSE IF constructThrows
    THEN [w EXCEPT !.status = [@ EXCEPT !.available = FALSE, !.error = ConstructError]]
    ELSE [w EXCEPT !.provider = [@ EXCEPT !.constructed = @ + 1,
                                          !.listeners = IF w.eventListenersSetup
                                                        THEN @ ELSE @ + 3],
                   !.eventListenersSetup = TRUE,
                   !.push2WebRef = TRUE,
                   !.status = [@ EXCEPT !.available = TRUE, !.error = NULL]]

\* a subscribe whose catch only records the error
SubscribeWithClientStaysConnecting(w, cameraKitSession, lensRepository, subscribeThrows) ==
    IF subscribeThrows
    THEN [w EXCEPT !.provider = [@ EXCEPT !.calls = @ + 1],
                   !.status = [@ EXCEPT !.error = RejectError],
                   !.connectionState = "connecting",
                   !.returned = "false"]
    ELSE [w EXCEPT !.provider = [@ EXCEPT !.calls = @ + 1,
                                          !.live = @ \cup {w.provider.calls + 1}],
                   !.subscriptionRef = w.provider.calls + 1,
                   !.status = [@ EXCEPT !.error = NULL,
                                        !.subscribed = TRUE,
                                        !.session = (cameraKitSession # NULL),
                                        !.repository = (lensRepository # NULL)],
                   !.connectionState = "connected",
                   !.returned = "true"]

\* subscribe, after initializePush2Web returned an instance and the token was
\* found truthy; subscribeThrows: push2Web.subscribe throws
SubscribeWithClient(w, cameraKitSession, lensRepository, subscribeThrows) ==
    IF subscribeThrows
    THEN [w EXCEPT !.provider = [@ EXCEPT !.calls = @ + 1],
                   !.status = [@ EXCEPT !.subscribed = FALSE, !.error = RejectError],
                   !.connectionState = "disconnected",
                   !.returned = "false"]
    ELSE [w EXCEPT !.provider = [@ EXCEPT !.calls = @ + 1,
                                          !.live = @ \cup {w.provider.calls + 1}],
                   !.subscriptionRef = w.provider.calls + 1,
                   !.status = [@ EXCEPT !.error = NULL,
                                        !.subscribed = TRUE,
                                        !.session = (cameraKitSession # NULL),
                                        !.repository = (lensRepository # NULL)],
                   !.connectionState = "connected",
                   !.returned = "true"]

\* subscribe, after initializePush2Web returned an instance
SubscribeChecked(w, accessToken, cameraKitSession, lensRepository, subscribeThrows) ==
    IF ~Truthy(accessToken)
    THEN [w EXCEPT !.status = [@ EXCEPT !.error = "Access token required"],
                   !.returned = "false"]
    ELSE SubscribeWithClient(w, cameraKitSession, lensRepository, subscribeThrows)

subscribe(w, accessToken, cameraKitSession, lensRepository, constructThrows, subscribeThrows) ==
    IF ~initializePush2Web(w, constructThrows).push2WebRef
    THEN [initializePush2Web(w, constructThrows) EXCEPT !.returned = "false"]
    ELSE SubscribeChecked(initializePush2Web(w, constructThrows), accessToken,
                          cameraKitSession, lensRepository, subscribeThrows)

\* an unsubscribe that forgets the handle without tearing it down
unsubscribeForgetsHandle(w, teardownThrows) ==
    IF w.subscriptionRef = 0 THEN w
    ELSE [w EXCEPT !.subscriptionRef = 0,
                   !.status = [@ EXCEPT !.subscribed = FALSE],
                   !.connectionState = "disconnected"]

\* unsubscribe; teardownThrows: the handle's unsubscribe() throws
unsubscribe(w, teardownThrows) ==
    IF w.subscriptionRef = 0 THEN w
    ELSE IF teardownThrows THEN w
    ELSE [w EXCEPT !.provider = [@ EXCEPT !.live = @ \ {w.subscriptionRef}],
                   !.subscriptionRef = 0,
                   !.status = [@ EXCEPT !.subscribed = FALSE],
                   !.connectionState = "disconnected"]

\* the cleanup effect, run when the component that uses the hook unmounts.
\* State set after it is dropped by React; the refs, the timers and the
\* library's listeners outlive it.
unmount(w, teardownThrows) ==
    [unsubscribe(w, teardownThrows) EXCEPT !.mounted = FALSE]

\* the 'subscriptionChanged' listener
OnSubscriptionChanged(w, subState) ==
    [w EXCEPT !.status = [@ EXCEPT !.subscribed = (subState = "subscribed")],
              !.connectionState = IF subState = "subscribed"
                                  THEN "connected" ELSE "disconnected"]

\* the library reports 'subscribed' only while it holds a subscription
ProviderMayReport(subState) ==
    subState = "subscribed" => provider.live # {}

\* the message the 'error' listener takes from an event; NULL: the event's
\* detail carries none
errorMessage(message) ==
    IF Truthy(message) THEN message ELSE "Unknown Push2Web error"

\* an 'error' listener that gives the subscription up
OnErrorEventUnsubscribes(w, message) ==
    [unsubscribe(w, FALSE) EXCEPT !.status = [@ EXCEPT !.error = errorMessage(message)]]

\* the 'error' listener
OnErrorEvent(w, message) ==
    [w EXCEPT !.status = [@ EXCEPT !.error = errorMessage(message)]]

\* a 'lensReceived' listener that hands the event's fields on as they came
transformedDataAsReceived(lensData) ==
    [id |-> lensData.id, name |-> lensData.name, iconUrl |-> lensData.iconUrl,
     cameraFacingPreference |-> lensData.cameraFacingPreference,
     lensCreator |-> lensData.lensCreator]

\* transformedData, as the 'lensReceived' listener builds it from event.detail
transformedData(lensData) ==
    [id |-> lensData.id, name |-> lensData.name, iconUrl |-> lensData.iconUrl,
     cameraFacingPreference |-> IF Truthy(lensData.cameraFacingPreference)
                                THEN lensData.cameraFacingPreference
                                ELSE "CAMERA_FACING_UNSET",
     lensCreator |-> lensData.lensCreator]

\* a setTimeout callback that will call subscribe with the arguments it closed
\* over; beforeLogout notes that handleLogout has run since it was set
Timer(kind, accessToken, cameraKitSession, lensRepository) ==
    [kind |-> kind, token |-> accessToken, session |-> cameraKitSession,
     repository |-> lensRepository, beforeLogout |-> FALSE]

RemoveAt(seq, i) == SubSeq(seq, 1, i - 1) \o SubSeq(seq, i + 1, Len(seq))

\* the last call made to the hook or by it to a caller's handler: which
\* operation, and the token of a subscribe call or the argument of the
\* handler; seq tells a call from the one before it
NoCall == [seq |-> 0, op |-> "none", token |-> NULL]

CallOf(accessToken, cameraKitSession, lensRepository) ==
    [seq |-> 1 - called.seq, op |-> "subscribe", token |-> accessToken]

UnsubscribeCall == [seq |-> 1 - called.seq, op |-> "unsubscribe", token |-> NULL]

\* handlers?.onError?.(errorMessage)
OnErrorCall(message) ==
    [seq |-> 1 - called.seq, op |-> "onError", token |-> errorMessage(message)]

InitPushVars ==
    /\ status = InitialStatus
    /\ connectionState = "disconnected"
    /\ lastLensReceived = [id |-> NULL, name |-> NULL, iconUrl |-> NULL,
                           cameraFacingPreference |-> NULL, lensCreator |-> NULL]
    /\ pushMounted = TRUE
    /\ push2WebRef = FALSE
    /\ subscriptionRef = 0
    /\ eventListenersSetup = FALSE
    /\ provider = InitialProvider
    /\ returned = NULL
    /\ timers = <<>>

InitUiVars ==
    /\ props = [cameraKitSession |-> NULL, lensRepository |-> NULL]
    /\ renderPending = FALSE
    /\ loginKit = [mounted |-> FALSE, session |-> NULL, repository |-> NULL,
                   pending |-> FALSE]
    /\ flowLog = <<>>
    /\ called = NoCall

(***************************************************************************)
(* useOAuth, redirect build: the server redirects back to the page with    *)
(* the outcome in the query string; the hook reads it when it mounts.      *)
(***************************************************************************)
\* the user_info parameter as the query string carries it
EncodedUserInfos == {"%7Balice%7D", "null", "%7Balice", "%E0%A4%A"}

\* decodeURIComponent throws a URIError on a malformed escape
URIDecodes(str) == str # "%E0%A4%A"

\* a decoding that leaves the percent escapes in place
decodeURIComponentIdentity(str) == str

decodeURIComponent(str) ==
    CASE str = "%7Balice%7D" -> "{alice}"
      [] str = "%7Balice" -> "{alice"
      [] OTHER -> str

\* new URLSearchParams(window.location.search).get(...) for the four keys
NoQuery ==
    [oauth_success |-> NULL, access_token |-> NULL, user_info |-> NULL, error |-> NULL]

Queries ==
    [oauth_success : {NULL, "true"}, access_token : {NULL, "T1"},
     user_info : {NULL} \cup EncodedUserInfos, error : {NULL} \cup ProviderErrors]

InitialOAuthState ==
    [isLoggedIn |-> FALSE, accessToken |-> NULL, user |-> NULL,
     isLoading |-> FALSE, error |-> NULL]

EmptyOAuthStore == [oauth_token |-> NULL, oauth_user |-> NULL]

\* what sessionStorage may hold when the page loads
StoredOAuth ==
    [oauth_token : {NULL, "T1", "T0"}, oauth_user : {NULL, "{alice}", CorruptJSON}]

\* userInfoStr ? JSON.parse(decodeURIComponent(userInfoStr)) : null
UserInfoParses(userInfoStr) ==
    Truthy(userInfoStr) =>
        URIDecodes(userInfoStr) /\ JSONparses(decodeURIComponent(userInfoStr))

ParsedUserInfo(userInfoStr) ==
    IF Truthy(userInfoStr) THEN JSONparse(decodeURIComponent(userInfoStr)) ELSE NULL

\* the URL-callback effect; w holds oauth, oauthStore and url
UrlCallbackEffect(w) ==
    IF Truthy(w.url.error)
    THEN [w EXCEPT !.oauth = [@ EXCEPT !.error = w.url.error, !.isLoading = FALSE],
                   !.url = NoQuery]
    ELSE IF Truthy(w.url.oauth_success) /\ Truthy(w.url.access_token)
    THEN IF UserInfoParses(w.url.user_info)
         THEN LET userInfo == ParsedUserInfo(w.url.user_info) IN
              [w EXCEPT !.oauth = [@ EXCEPT !.isLoggedIn = TRUE,
                                            !.accessToken = w.url.access_token,
                                            !.user = userInfo,
                                            !.error = NULL,
                                            !.isLoading = FALSE],
                        !.oauthStore =
                            [oauth_token |-> w.url.access_token,
                             oauth_user |-> IF userInfo # NULL
                                            THEN JSONstringify(userInfo)
                                            ELSE @.oauth_user],
                        !.url = NoQuery]
         ELSE [w EXCEPT !.oauth = [@ EXCEPT !.error = "Invalid user data",
                                            !.isLoading = FALSE]]
    ELSE w

\* the restore effect, which runs after the URL-callback effect
RestoreEffect(w) ==
    IF Truthy(w.oauthStore.oauth_token)
    THEN IF Truthy(w.oauthStore.oauth_user) => JSONparses(w.oauthStore.oauth_user)
         THEN [w EXCEPT !.oauth =
                  [@ EXCEPT !.isLoggedIn = TRUE,
                            !.accessToken = w.oauthStore.oauth_token,
                            !.user = IF Truthy(w.oauthStore.oauth_user)
                                     THEN JSONparse(w.oauthStore.oauth_user)
                                     ELSE NULL,
                            !.isLoading = FALSE]]
         ELSE [w EXCEPT !.oauthStore = EmptyOAuthStore]
    ELSE w

OAuthWorld == [oauth |-> oauth, oauthStore |-> oauthStore, url |-> url]

SetOAuthWorld(w) ==
    /\ oauth' = w.oauth
    /\ oauthStore' = w.oauthStore
    /\ url' = w.url

\* LoginKit as it first renders; build: the file the component is built from.
\* userInitiated is the ref of part_003 (LoginKit.tsx has none); flagSetBy
\* notes what last set it; pending holds the callbacks awaiting fetchUserInfo
\* and the setError timers; seq tells one invocation of the SDK callback from
\* the one before; logins, loginBy and loginFlag describe the onLogin calls
InitialKit(build) ==
    [build |-> build, mountAttempted |-> FALSE, buttonMounted |-> FALSE,
     userInitiated |-> FALSE, flagSetBy |-> "none",
     isLoading |-> FALSE, error |-> NULL, pending |-> <<>>, seq |-> 0,
     logins |-> 0, loginBy |-> "none", loginFlag |-> "none"]

\* the OAuth endpoint before any request; impl: the handler deployed.  cookie
\* is the browser's oauth_state cookie, last the last callback request
\* handled and what the handler did with it
InitialServer(impl) ==
    [impl |-> impl, cookie |-> NULL,
     last |-> [seq |-> 0, code |-> NULL, state |-> NULL, error |-> NULL,
               cookie |-> NULL, exchanged |-> FALSE, redirect |-> NULL]]

\* the variables of the other specifications while they are not in use
InitLoadVars ==
    /\ kit = InitialKit("LoginKit.tsx")
    /\ server = InitialServer("callback.js")
    /\ hook = "popup"
    /\ mounted = FALSE
    /\ url = NoQuery
    /\ oauth = InitialOAuthState
    /\ oauthStore = EmptyOAuthStore
    /\ loaded = [url |-> NoQuery, store |-> EmptyOAuthStore]

(***************************************************************************)
(* SpecAuth: the useOAuth hook alone.                                      *)
(***************************************************************************)
AuthHookStep(A) ==
    A /\ UNCHANGED <<pushVars, props, renderPending, loginKit, called, loadVars, kit, server>>

\* flowLog[f]: the outcomes flow f has emitted, whether a recognised
\* same-origin message has reached its listener, whether the user closed its
\* popup; other, of the first record, flips with every other message that
\* reaches a listener; loggedOut, kept for the first flow: logout was called
\* before the flow had emitted an outcome
NewLog ==
    [outcomes |-> {}, gotMessage |-> FALSE, closedByUser |-> FALSE, other |-> 0,
     loggedOut |-> FALSE]

Recognised(m) ==
    m.origin = "same" /\ m.type \in {"SNAPCHAT_OAUTH_SUCCESS", "SNAPCHAT_OAUTH_ERROR"}

OutcomeOf(m) == IF m.type = "SNAPCHAT_OAUTH_SUCCESS" THEN "success" ELSE "error"

LogMessage(m) ==
    [f \in 1..Len(flowLog) |->
        IF flows[f].listener /\ Recognised(m)
        THEN [flowLog[f] EXCEPT !.outcomes = @ \cup {OutcomeOf(m)}, !.gotMessage = TRUE]
        ELSE IF f = 1 /\ ~Recognised(m) /\ \E g \in 1..Len(flows) : flows[g].listener
        THEN [flowLog[f] EXCEPT !.other = 1 - @]
        ELSE flowLog[f]]

LogUserClose ==
    [f \in 1..Len(flowLog) |->
        IF flows[f].win = openWin
        THEN [flowLog[f] EXCEPT !.closedByUser = TRUE]
        ELSE flowLog[f]]

AuthSdkLoaded == AuthHookStep(SdkLoaded) /\ UNCHANGED flowLog
AuthSdkLoadFailed == AuthHookStep(SdkLoadFailed) /\ UNCHANGED flowLog
AuthLoginViaPopup ==
    /\ AuthHookStep(LoginViaPopup)
    /\ flowLog' = IF Len(flows') > Len(flows) THEN Append(flowLog, NewLog) ELSE flowLog
AuthPopupMessage ==
    \E m \in Messages : AuthHookStep(PopupMessage(m)) /\ flowLog' = LogMessage(m)
AuthPollTick(f) ==
    /\ f <= Len(flows)
    /\ AuthHookStep(PollTick(f))
    /\ flowLog' = [flowLog EXCEPT ![f].outcomes = @ \cup {"cancelled"}]
AuthPollTicks == \E f \in 1..MaxFlows : AuthPollTick(f)
AuthUserClosesPopup == AuthHookStep(UserClosesPopup) /\ flowLog' = LogUserClose
AuthLogout ==
    /\ AuthHookStep(logout)
    /\ flowLog' = [f \in 1..Len(flowLog) |->
                      IF f = 1 /\ flowLog[f].outcomes = {}
                      THEN [flowLog[f] EXCEPT !.loggedOut = TRUE]
                      ELSE flowLog[f]]
AuthClearError == AuthHookStep(clearError) /\ UNCHANGED flowLog
AuthReload == AuthHookStep(Reload) /\ flowLog' = <<>>

InitAuth == InitAuthVars /\ InitPushVars /\ InitUiVars /\ InitLoadVars

NextAuth ==
    \/ AuthSdkLoaded
    \/ AuthSdkLoadFailed
    \/ AuthLoginViaPopup
    \/ AuthPopupMessage
    \/ AuthPollTicks
    \/ AuthUserClosesPopup
    \/ AuthLogout
    \/ AuthClearError
    \/ AuthReload

SpecAuth == InitAuth /\ [][NextAuth]_vars

(***************************************************************************)
(* SpecPush: the usePush2Web hook alone; subscribe is callable with any     *)
(* argument.                                                               *)
(***************************************************************************)
pushOutside == <<authVars, props, renderPending, loginKit, flowLog, loadVars, kit, server>>

PushTokens == {NULL, "", "T1"}

\* whether a library call throws, drawn only where the call is made
Throws(callMade) == IF callMade THEN BOOLEAN ELSE {FALSE}

PushSubscribe ==
    \E t \in PushTokens, cs \in SessionHandles, lr \in RepositoryHandles :
    \E ct \in Throws(~push2WebRef), st \in Throws(Truthy(t)) :
        /\ pushMounted
        /\ provider.calls < MaxSubscribeCalls
        /\ SetPush(subscribe(PushWorld, t, cs, lr, ct, st))
        /\ called' = CallOf(t, cs, lr)
        /\ UNCHANGED <<timers, pushOutside>>

PushUnsubscribe ==
    \E tt \in Throws(subscriptionRef # 0) :
        /\ pushMounted
        /\ SetPush(unsubscribe(PushWorld, tt))
        /\ called' = UnsubscribeCall
        /\ UNCHANGED <<timers, pushOutside>>

\* the component unmounts
PushUnmount ==
    \E tt \in Throws(subscriptionRef # 0) :
        /\ pushMounted
        /\ SetPush(unmount(PushWorld, tt))
        /\ called' = UnsubscribeCall
        /\ UNCHANGED <<timers, pushOutside>>

\* reconnect up to its await of the 1000 ms delay, with arguments as its one
\* caller, handleRetryConnection, passes them: all three truthy.  The timer
\* also notes the handle held when reconnect was called and whether its
\* teardown went through.
PushReconnect ==
    \E tt \in Throws(subscriptionRef # 0) :
        /\ pushMounted
        /\ Len(timers) < MaxTimers
        /\ SetPush(unsubscribe(PushWorld, tt))
        /\ called' = UnsubscribeCall
        /\ timers' = Append(timers, Timer("reconnect", "T1", "session", "repository")
                                        @@ [old |-> subscriptionRef, tornDown |-> ~tt])
        /\ UNCHANGED pushOutside

\* reconnect after the delay: subscribe with the arguments of the call
PushReconnectResumes ==
    \E i \in 1..Len(timers) :
    \E ct \in Throws(~push2WebRef), st \in Throws(Truthy(timers[i].token)) :
        /\ provider.calls < MaxSubscribeCalls
        /\ SetPush(subscribe(PushWorld, timers[i].token, timers[i].session,
                             timers[i].repository, ct, st))
        /\ called' = CallOf(timers[i].token, timers[i].session, timers[i].repository)
        /\ timers' = RemoveAt(timers, i)
        /\ UNCHANGED pushOutside

\* initializePush2Web called directly, or through getExtension or testAvailability
PushInitialize ==
    \E ct \in Throws(~push2WebRef) :
        /\ pushMounted
        /\ SetPush(initializePush2Web(PushWorld, ct))
        /\ UNCHANGED <<timers, called, pushOutside>>

PushSubscriptionChanged ==
    \E subState \in {"subscribed", "unsubscribed"} :
        /\ eventListenersSetup
        /\ ProviderMayReport(subState)
        /\ SetPush(OnSubscriptionChanged(PushWorld, subState))
        /\ UNCHANGED <<timers, called, pushOutside>>

PushErrorEvent ==
    \E message \in PushErrorEvents \cup {NULL} :
        /\ eventListenersSetup
        /\ SetPush(OnErrorEvent(PushWorld, message))
        /\ called' = OnErrorCall(message)
        /\ UNCHANGED <<timers, pushOutside>>

\* a 'lensReceived' event arrives, which the library sends over a
\* subscription it holds; lensData: the event's detail, NULL for a field it
\* does not carry.  called takes the lens id, the handler's argument (lens)
\* and the detail it was made from.
PushLensReceived ==
    \E lensData \in [id : {"L1"}, name : {"lens"}, iconUrl : {NULL},
                     cameraFacingPreference : {NULL, "CAMERA_FACING_BACK"},
                     lensCreator : {"creator"}] :
        /\ eventListenersSetup
        /\ provider.live # {}
        /\ SetPush([PushWorld EXCEPT !.lastLensReceived = transformedData(lensData)])
        /\ called' = [seq |-> 1 - called.seq, op |-> "onLensReceived",
                      token |-> lensData.id, lens |-> transformedData(lensData),
                      detail |-> lensData]
        /\ UNCHANGED <<timers, pushOutside>>

PushClearError ==
    /\ pushMounted
    /\ status' = [status EXCEPT !.error = NULL]
    /\ UNCHANGED <<connectionState, lastLensReceived, pushMounted, push2WebRef,
                   subscriptionRef, eventListenersSetup, provider, returned, timers,
                   called, pushOutside>>

InitPush ==
    /\ InitPushVars
    /\ InitUiVars
    /\ InitLoadVars
    /\ config = TRUE
    /\ auth = InitialState
    /\ storage = EmptyStorage
    /\ sdkReady = FALSE
    /\ flows = <<>>
    /\ openWin = 0

NextPush ==
    \/ PushSubscribe
    \/ PushUnsubscribe
    \/ PushUnmount
    \/ PushReconnect
    \/ PushReconnectResumes
    \/ PushInitialize
    \/ PushSubscriptionChanged
    \/ PushErrorEvent
    \/ PushLensReceived
    \/ PushClearError

SpecPush == InitPush /\ [][NextPush]_vars

(***************************************************************************)
(* Spec: Push2WebManager.  Every handler that sets React state leaves a    *)
(* render due (renderPending); the render and the auto-subscribe effect    *)
(* run before the next event is handled.  The effect's dependency list     *)
(* holds subscribe, whose identity changes with every render (usePush2Web *)
(* is passed a new handlers object each time), so the effect runs after    *)
(* every render.                                                           *)
(***************************************************************************)
\* the failures of the Push2Web library this specification draws from
UIConstructThrows == {FALSE}
UITeardownThrows == {FALSE}

isReady == status.available /\ status.subscribed /\ status.error = NULL

\* the condition of the auto-subscribe effect
AutoSubscribeCondition ==
    /\ auth.isAuthenticated
    /\ Truthy(auth.accessToken)
    /\ props.cameraKitSession # NULL
    /\ props.lensRepository # NULL
    /\ ~status.subscribed

\* LoginKit is rendered while the session is not authenticated
LoginKitAfterRender ==
    IF auth.isAuthenticated THEN [loginKit EXCEPT !.mounted = FALSE] ELSE loginKit

\* a render of Push2WebManager followed by its auto-subscribe effect
UIAutoSubscribeEffect ==
    /\ renderPending
    /\ loginKit' = LoginKitAfterRender
    /\ IF AutoSubscribeCondition
       THEN \E ct \in UIConstructThrows, st \in BOOLEAN :
              /\ provider.calls < MaxSubscribeCalls
              /\ SetPushDroppingResult(subscribe(PushWorld, auth.accessToken, props.cameraKitSession,
                                   props.lensRepository, ct, st))
              /\ called' = [seq |-> 0, op |-> "autoSubscribe",
                            token |-> subscribe(PushWorld, auth.accessToken,
                                                props.cameraKitSession,
                                                props.lensRepository, ct, st).returned]
              /\ renderPending' = TRUE
       ELSE /\ renderPending' = FALSE
            /\ called' = NoCall
            /\ UNCHANGED <<status, connectionState, lastLensReceived, pushMounted,
                           push2WebRef, subscriptionRef, eventListenersSetup, provider,
                           returned>>
    /\ UNCHANGED <<timers, props, authVars, flowLog, loadVars, kit, server>>

UIAuthStep(A) ==
    /\ ~renderPending
    /\ A
    /\ renderPending' = TRUE
    /\ UNCHANGED <<pushVars, props, loginKit, flowLog, called, loadVars, kit, server>>

\* the messages whose handling sets state
UIMessages ==
    {m \in Messages : m.origin = "same" /\ m.type # "OTHER" /\ m.user_info # NULL}

UISdkLoaded == UIAuthStep(SdkLoaded)
UILoginViaPopup == UIAuthStep(Len(flows) < MaxUIFlows /\ loginViaPopup(FALSE))
UIPopupMessage == \E m \in UIMessages : UIAuthStep(PopupMessage(m))
UIPollTicks == UIAuthStep(PollTicks)
UIClearOAuthError == UIAuthStep(auth.error # NULL /\ clearError)

UIUserClosesPopup ==
    /\ ~renderPending
    /\ UserClosesPopup
    /\ UNCHANGED <<pushVars, uiVars, loadVars, kit, server>>

\* the parent renders Push2WebManager with other cameraKitSession / lensRepository
UISetProps ==
    \E cs \in SessionHandles, lr \in RepositoryHandles :
        /\ ~renderPending
        /\ props' = [cameraKitSession |-> cs, lensRepository |-> lr]
        /\ props' # props
        /\ renderPending' = TRUE
        /\ UNCHANGED <<authVars, pushVars, loginKit, flowLog, called, loadVars, kit, server>>

\* LoginKit mounts the SDK button; its callback closes over the handleLogin of
\* this render, which closes over the props of this render
UILoginKitMount ==
    /\ ~renderPending
    /\ ~auth.isAuthenticated
    /\ config
    /\ ~loginKit.mounted
    /\ loginKit' = [loginKit EXCEPT !.mounted = TRUE,
                                    !.session = props.cameraKitSession,
                                    !.repository = props.lensRepository]
    /\ UNCHANGED <<authVars, pushVars, props, renderPending, flowLog, called, loadVars, kit, server>>

\* the SDK invokes handleLoginCallback, which waits and then fetches the profile
UILoginKitCallback ==
    /\ ~renderPending
    /\ loginKit.mounted
    /\ ~loginKit.pending
    /\ loginKit' = [loginKit EXCEPT !.pending = TRUE]
    /\ UNCHANGED <<authVars, pushVars, props, renderPending, flowLog, called, loadVars, kit, server>>

\* handleLogin(token, userInfo) with the props it closed over
handleLogin(accessToken) ==
    IF loginKit.session # NULL /\ loginKit.repository # NULL
    THEN /\ Len(timers) < MaxTimers
         /\ timers' = Append(timers, Timer("handleLogin", accessToken,
                                          loginKit.session, loginKit.repository))
    ELSE UNCHANGED timers

\* fetchUserInfo settles: with a profile, onLogin is called with a token made
\* from it; without, LoginKit shows an error
UILoginKitUserInfo ==
    \E ok \in BOOLEAN :
        /\ ~renderPending
        /\ loginKit.pending
        /\ loginKit' = [loginKit EXCEPT !.pending = FALSE]
        /\ IF ok THEN handleLogin("LK1") ELSE UNCHANGED timers
        /\ UNCHANGED <<authVars, status, connectionState, lastLensReceived, pushMounted,
                       push2WebRef, subscriptionRef,
                       eventListenersSetup, provider, returned, props, renderPending,
                       flowLog, called, loadVars, kit, server>>

\* a pending timer fires: the delayed subscribe of handleLogin, or reconnect
\* resuming after its delay
UITimerFires ==
    \E i \in 1..Len(timers), ct \in UIConstructThrows, st \in BOOLEAN :
        /\ ~renderPending
        /\ provider.calls < MaxSubscribeCalls
        /\ SetPushDroppingResult(subscribe(PushWorld, timers[i].token, timers[i].session,
                             timers[i].repository, ct, st))
        /\ timers' = RemoveAt(timers, i)
        /\ renderPending' = TRUE
        /\ UNCHANGED <<authVars, props, loginKit, flowLog, called, loadVars, kit, server>>

\* 'Retry Connection', rendered while authenticated and not isReady
UIHandleRetryConnection ==
    \E tt \in UITeardownThrows :
        /\ ~renderPending
        /\ auth.isAuthenticated
        /\ ~isReady
        /\ Truthy(auth.accessToken)
        /\ props.cameraKitSession # NULL
        /\ props.lensRepository # NULL
        /\ Len(timers) < MaxTimers
        /\ SetPushDroppingResult(unsubscribe(PushWorld, tt))
        /\ timers' = Append(timers, Timer("reconnect", auth.accessToken,
                                          props.cameraKitSession, props.lensRepository))
        /\ renderPending' = (unsubscribe(PushWorld, tt) # PushWorld)
        /\ UNCHANGED <<authVars, props, loginKit, flowLog, called, loadVars, kit, server>>

\* 'Logout & Disconnect', rendered while authenticated
UIHandleLogout ==
    \E tt \in UITeardownThrows :
        /\ ~renderPending
        /\ auth.isAuthenticated
        /\ SetPushDroppingResult(unsubscribe(PushWorld, tt))
        /\ logout
        /\ timers' = [i \in 1..Len(timers) |-> [timers[i] EXCEPT !.beforeLogout = TRUE]]
        /\ renderPending' = TRUE
        /\ UNCHANGED <<props, loginKit, flowLog, called, loadVars, kit, server>>

UISubscriptionChanged ==
    \E subState \in {"subscribed", "unsubscribed"} :
        /\ ~renderPending
        /\ eventListenersSetup
        /\ ProviderMayReport(subState)
        /\ SetPushDroppingResult(OnSubscriptionChanged(PushWorld, subState))
        /\ renderPending' = TRUE
        /\ UNCHANGED <<timers, authVars, props, loginKit, flowLog, called, loadVars, kit, server>>

UIErrorEvent ==
    \E message \in PushErrorEvents :
        /\ ~renderPending
        /\ eventListenersSetup
        /\ SetPushDroppingResult(OnErrorEvent(PushWorld, message))
        /\ renderPending' = TRUE
        /\ UNCHANGED <<timers, authVars, props, loginKit, flowLog, called, loadVars, kit, server>>

UIClearPush2WebError ==
    /\ ~renderPending
    /\ status.error # NULL
    /\ status' = [status EXCEPT !.error = NULL]
    /\ renderPending' = TRUE
    /\ UNCHANGED <<connectionState, lastLensReceived, pushMounted, push2WebRef,
                   subscriptionRef, eventListenersSetup,
                   provider, returned, timers, authVars, props, loginKit, flowLog, called, loadVars, kit, server>>

\* the component mounts: the first render and its effects are due
Init ==
    /\ config = TRUE
    /\ \E st \in {EmptyStorage, [token |-> "T1", user |-> "{alice}", state |-> NULL]} :
          /\ auth = RestoreSession(st).auth
          /\ storage = RestoreSession(st).storage
    /\ sdkReady = FALSE
    /\ flows = <<>>
    /\ openWin = 0
    /\ InitPushVars
    /\ props = [cameraKitSession |-> NULL, lensRepository |-> NULL]
    /\ renderPending = TRUE
    /\ loginKit = [mounted |-> FALSE, session |-> NULL, repository |-> NULL,
                   pending |-> FALSE]
    /\ flowLog = <<>>
    /\ called = NoCall
    /\ InitLoadVars

Next ==
    \/ UIAutoSubscribeEffect
    \/ UISdkLoaded
    \/ UILoginViaPopup
    \/ UIPopupMessage
    \/ UIPollTicks
    \/ UIClearOAuthError
    \/ UIUserClosesPopup
    \/ UISetProps
    \/ UILoginKitMount
    \/ UILoginKitCallback
    \/ UILoginKitUserInfo
    \/ UITimerFires
    \/ UIHandleRetryConnection
    \/ UIHandleLogout
    \/ UISubscriptionChanged
    \/ UIErrorEvent
    \/ UIClearPush2WebError

Spec == Init /\ [][Next]_vars

\* setInterval keeps ticking until clearInterval: a tick that would find the
\* popup closed is eventually taken
FairSpecAuth ==
    /\ SpecAuth
    /\ \A f \in 1..MaxFlows : WF_vars(AuthPollTick(f))

(***************************************************************************)
(* SpecLoad: a page load.  The page runs one build of useOAuth; the hook   *)
(* mounts on whatever query string and sessionStorage the browser holds,   *)
(* and is then used until the page is left.                                *)
(***************************************************************************)
\* what sessionStorage may hold when the popup build mounts
StoredSnapOAuth ==
    [token : {NULL, "", "T1", "undefined"},
     user : {NULL, "", "{alice}", "null", CorruptJSON},
     state : {NULL, "S"}]

loadOutside ==
    <<sdkReady, config, flows, openWin, pushVars, props, renderPending, loginKit,
      flowLog, called, kit, server>>

\* the popup build mounts: its session-restore effect runs
MountPopupHook ==
    /\ hook = "popup"
    /\ ~mounted
    /\ mounted' = TRUE
    /\ loaded' = [url |-> url, store |-> storage]
    /\ auth' = RestoreSession(storage).auth
    /\ storage' = RestoreSession(storage).storage
    /\ UNCHANGED <<hook, url, oauth, oauthStore, loadOutside>>

\* the redirect build mounts: the URL-callback effect, then the restore effect
MountRedirectHook ==
    /\ hook = "redirect"
    /\ ~mounted
    /\ mounted' = TRUE
    /\ loaded' = [url |-> url, store |-> oauthStore]
    /\ SetOAuthWorld(RestoreEffect(UrlCallbackEffect(OAuthWorld)))
    /\ UNCHANGED <<hook, auth, storage, loadOutside>>

\* login of the redirect build, up to the navigation it starts
login ==
    /\ hook = "redirect"
    /\ mounted
    /\ oauth' = [oauth EXCEPT !.isLoading = TRUE, !.error = NULL]
    /\ UNCHANGED <<hook, mounted, url, oauthStore, loaded, auth, storage, loadOutside>>

oauthLogout ==
    /\ hook = "redirect"
    /\ mounted
    /\ oauth' = InitialOAuthState
    /\ oauthStore' = EmptyOAuthStore
    /\ UNCHANGED <<hook, mounted, url, loaded, auth, storage, loadOutside>>

oauthClearError ==
    /\ hook = "redirect"
    /\ mounted
    /\ oauth' = [oauth EXCEPT !.error = NULL]
    /\ UNCHANGED <<hook, mounted, url, oauthStore, loaded, auth, storage, loadOutside>>

LoadLogout ==
    /\ hook = "popup"
    /\ mounted
    /\ logout
    /\ UNCHANGED <<loadVars, pushVars, uiVars, kit, server>>

LoadClearError ==
    /\ hook = "popup"
    /\ mounted
    /\ clearError
    /\ UNCHANGED <<loadVars, pushVars, uiVars, kit, server>>

\* the page is left and loaded again: by a reload, or by the server's redirect
\* back with the outcome of a login in the query string
Navigate ==
    /\ mounted
    /\ mounted' = FALSE
    /\ auth' = InitialState
    /\ oauth' = InitialOAuthState
    /\ IF hook = "redirect" THEN url' \in Queries ELSE url' = url
    /\ UNCHANGED <<hook, storage, oauthStore, loaded, loadOutside>>

InitLoad ==
    /\ hook \in {"popup", "redirect"}
    /\ mounted = FALSE
    /\ auth = InitialState
    /\ oauth = InitialOAuthState
    /\ IF hook = "popup"
       THEN storage \in StoredSnapOAuth /\ oauthStore = EmptyOAuthStore /\ url = NoQuery
       ELSE storage = EmptyStorage /\ oauthStore \in StoredOAuth /\ url \in Queries
    /\ loaded = [url |-> NoQuery, store |-> EmptyOAuthStore]
    /\ kit = InitialKit("LoginKit.tsx")
    /\ server = InitialServer("callback.js")
    /\ config = TRUE
    /\ sdkReady = FALSE
    /\ flows = <<>>
    /\ openWin = 0
    /\ InitPushVars
    /\ InitUiVars

NextLoad ==
    \/ MountPopupHook
    \/ MountRedirectHook
    \/ login
    \/ oauthLogout
    \/ oauthClearError
    \/ LoadLogout
    \/ LoadClearError
    \/ Navigate

SpecLoad == InitLoad /\ [][NextLoad]_vars

(***************************************************************************)
(* SpecKit: the LoginKit component alone, in either of its builds          *)
(* (src/components/LoginKit.tsx, and the build of part_003 with the        *)
(* userInitiated flag).  The SDK may invoke the mounted button's callback  *)
(* at any time, with or without a click.                                   *)
(***************************************************************************)
MaxKitPending == 2
MaxKitLogins == 2

\* the SDK is ready and the button is mounted; ok: mountButton returns
KitMount ==
    \E ok \in BOOLEAN :
        /\ ~kit.mountAttempted
        /\ Len(kit.pending) < MaxKitPending
        /\ kit' = IF ok
                  THEN [kit EXCEPT !.mountAttempted = TRUE, !.buttonMounted = TRUE]
                  ELSE IF kit.build = "part_003"
                  THEN [kit EXCEPT !.mountAttempted = TRUE,
                                   !.pending = Append(@, [kind |-> "setError",
                                                          flag |-> "none",
                                                          text |-> "Button mount failed"])]
                  ELSE [kit EXCEPT !.mountAttempted = TRUE, !.error = "Mount failed"]
        /\ UNCHANGED <<authVars, pushVars, uiVars, loadVars, server>>

\* the click listener part_003 adds to the button's container
KitClick ==
    /\ kit.build = "part_003"
    /\ kit.buttonMounted
    /\ kit' = [kit EXCEPT !.userInitiated = TRUE, !.flagSetBy = "click",
                          !.isLoading = TRUE]
    /\ UNCHANGED <<authVars, pushVars, uiVars, loadVars, server>>

\* the SDK invokes handleResponseCallback, up to its first await
KitCallback ==
    /\ kit.buttonMounted
    /\ Len(kit.pending) < MaxKitPending
    /\ kit' = IF kit.build = "part_003" /\ ~kit.userInitiated
              THEN [kit EXCEPT !.seq = 1 - @]
              ELSE [kit EXCEPT !.seq = 1 - @,
                               !.isLoading = TRUE,
                               !.error = NULL,
                               !.pending = Append(@, [kind |-> "fetchUserInfo",
                                                      flag |-> kit.flagSetBy,
                                                      text |-> NULL])]
    /\ UNCHANGED <<authVars, pushVars, uiVars, loadVars, server>>

\* the callback resumes: fetchUserInfo has settled, ok: with a profile
KitUserInfo ==
    \E i \in 1..Len(kit.pending), ok \in BOOLEAN :
        /\ kit.pending[i].kind = "fetchUserInfo"
        /\ ok => kit.logins < MaxKitLogins
        /\ kit' =
             IF kit.build = "part_003"
             THEN [kit EXCEPT
                     !.logins = IF ok THEN @ + 1 ELSE @,
                     !.loginBy = IF ok THEN "callback" ELSE @,
                     !.loginFlag = IF ok THEN kit.pending[i].flag ELSE @,
                     !.pending = IF ok THEN RemoveAt(@, i)
                                 ELSE Append(RemoveAt(@, i),
                                             [kind |-> "setError", flag |-> "none",
                                              text |-> "Login failed - please try again"]),
                     !.isLoading = FALSE,
                     !.userInitiated = FALSE,
                     !.flagSetBy = "none"]
             ELSE [kit EXCEPT
                     !.logins = IF ok THEN @ + 1 ELSE @,
                     !.loginBy = IF ok THEN "callback" ELSE @,
                     !.loginFlag = IF ok THEN kit.pending[i].flag ELSE @,
                     !.pending = RemoveAt(@, i),
                     !.error = IF ok THEN @ ELSE "No user information received",
                     !.isLoading = FALSE]
        /\ UNCHANGED <<authVars, pushVars, uiVars, loadVars, server>>

\* a setTimeout(() => setError(...)) of part_003 fires
KitSetError ==
    \E i \in 1..Len(kit.pending) :
        /\ kit.pending[i].kind = "setError"
        /\ kit' = [kit EXCEPT !.error = kit.pending[i].text,
                              !.pending = RemoveAt(@, i)]
        /\ UNCHANGED <<authVars, pushVars, uiVars, loadVars, server>>

\* handleMessage, the window message listener of part_003
handleMessage(k, m) ==
    IF m.origin # "same" THEN k
    ELSE IF m.type = "SNAPCHAT_OAUTH_SUCCESS"
    THEN [k EXCEPT !.userInitiated = TRUE,
                   !.flagSetBy = IF @ = "click" THEN @ ELSE "message",
                   !.logins = @ + 1,
                   !.loginBy = "message",
                   !.loginFlag = IF k.flagSetBy = "click" THEN "click" ELSE "message",
                   !.isLoading = FALSE,
                   !.error = NULL]
    ELSE IF m.type = "SNAPCHAT_OAUTH_ERROR"
    THEN [k EXCEPT !.error = "OAuth error: access_denied", !.isLoading = FALSE]
    ELSE k

\* a message event arrives at the window of part_003
KitMessage ==
    \E m \in Messages :
        /\ kit.build = "part_003"
        /\ (m.origin = "same" /\ m.type = "SNAPCHAT_OAUTH_SUCCESS") =>
               kit.logins < MaxKitLogins
        /\ kit' = handleMessage(kit, m)
        /\ UNCHANGED <<authVars, pushVars, uiVars, loadVars, server>>

InitKit ==
    /\ kit \in {InitialKit(build) : build \in {"LoginKit.tsx", "part_003"}}
    /\ server = InitialServer("callback.js")
    /\ hook = "popup"
    /\ mounted = FALSE
    /\ url = NoQuery
    /\ oauth = InitialOAuthState
    /\ oauthStore = EmptyOAuthStore
    /\ loaded = [url |-> NoQuery, store |-> EmptyOAuthStore]
    /\ config = TRUE
    /\ auth = InitialState
    /\ storage = EmptyStorage
    /\ sdkReady = FALSE
    /\ flows = <<>>
    /\ openWin = 0
    /\ InitPushVars
    /\ InitUiVars

NextKit ==
    \/ KitMount
    \/ KitClick
    \/ KitCallback
    \/ KitUserInfo
    \/ KitSetError
    \/ KitMessage

SpecKit == InitKit /\ [][NextKit]_vars

(***************************************************************************)
(* SpecServe: the server's OAuth endpoint, in each of the three handlers   *)
(* of the repository, and the browser's oauth_state cookie.  A callback    *)
(* request carries any code, state and error; it carries the cookie the    *)
(* browser holds, or none.                                                 *)
(***************************************************************************)
\* what the handler did with a request (query: req.query, cookie: the
\* oauth_state cookie it carried): whether it exchanged the code and where it
\* redirected
Handled(query, cookie, exchanged, redirect) ==
    [seq |-> 1 - server.last.seq, code |-> query.code, state |-> query.state,
     error |-> query.error, cookie |-> cookie, exchanged |-> exchanged,
     redirect |-> redirect]

\* GET /api/auth/login: a fresh state goes into the cookie and into the
\* provider's authorization URL
ServeLogin ==
    \E state \in {"S1", "S2"} :
        /\ server.impl # "express"
        /\ server' = [server EXCEPT !.cookie = state]
        /\ UNCHANGED <<authVars, pushVars, uiVars, loadVars, kit>>

\* api/auth/callback.js; exchangeOk: the token endpoint answers ok
ServeCallbackJs ==
    \E query \in [code : {NULL, "c1"}, state : {NULL, "S1", "S2"},
                   error : {NULL} \cup ProviderErrors],
       cookie \in {server.cookie, NULL}, exchangeOk \in BOOLEAN :
        /\ server.impl = "callback.js"
        /\ server' =
             IF Truthy(query.error)
             THEN [server EXCEPT !.last = Handled(query, cookie, FALSE, "/?error=" \o query.error)]
             ELSE IF ~Truthy(query.code) \/ ~Truthy(query.state)
             THEN [server EXCEPT !.last = Handled(query, cookie, FALSE, "/?error=missing_parameters")]
             ELSE IF cookie # query.state
             THEN [server EXCEPT !.last = Handled(query, cookie, FALSE, "/?error=invalid_state")]
             ELSE IF ~exchangeOk
             THEN [server EXCEPT !.last = Handled(query, cookie, TRUE, "/?error=authentication_failed")]
             ELSE [server EXCEPT !.cookie = NULL,
                                 !.last = Handled(query, cookie, TRUE, "/?oauth_success=1")]
        /\ UNCHANGED <<authVars, pushVars, uiVars, loadVars, kit>>

\* the callback handler of api/auth/login.js; exchangeOk: the token endpoint
\* returns an access_token
ServeLoginJsCallback ==
    \E query \in [code : {NULL, "c1"}, state : {NULL, "S1", "S2"},
                   error : {NULL} \cup ProviderErrors],
       cookie \in {server.cookie, NULL}, exchangeOk \in BOOLEAN :
        /\ server.impl = "login.js"
        /\ server' =
             IF Truthy(query.error)
             THEN [server EXCEPT !.last = Handled(query, cookie, FALSE, "/?error=" \o query.error)]
             ELSE IF ~Truthy(query.code) \/ ~Truthy(query.state) \/ query.state # cookie
             THEN [server EXCEPT !.last = Handled(query, cookie, FALSE, "/?error=invalid_request")]
             ELSE IF ~exchangeOk
             THEN [server EXCEPT !.last = Handled(query, cookie, TRUE, "/?error=auth_failed")]
             ELSE [server EXCEPT !.last = Handled(query, cookie, TRUE, "/?oauth_success=1")]
        /\ UNCHANGED <<authVars, pushVars, uiVars, loadVars, kit>>

\* app.get('/api/auth/login') of the express server, which serves the login
\* and the callback; it sets and reads no cookie
ServeExpress ==
    \E query \in [code : {NULL, "c1"}, state : {NULL, "S1", "S2"},
                   error : {NULL} \cup ProviderErrors],
       cookie \in {server.cookie, NULL}, exchangeOk \in BOOLEAN :
        /\ server.impl = "express"
        /\ server' =
             IF Truthy(query.error)
             THEN [server EXCEPT !.last = Handled(query, cookie, FALSE, "/?error=" \o query.error)]
             ELSE IF ~Truthy(query.code)
             THEN [server EXCEPT !.last = Handled(query, cookie, FALSE, "accounts.snapchat.com")]
             ELSE IF ~exchangeOk
             THEN [server EXCEPT !.last = Handled(query, cookie, TRUE, "/?error=Token exchange failed")]
             ELSE [server EXCEPT !.last = Handled(query, cookie, TRUE, "/?oauth_success=true")]
        /\ UNCHANGED <<authVars, pushVars, uiVars, loadVars, kit>>

InitServe ==
    /\ server \in {InitialServer(impl) : impl \in {"callback.js", "login.js", "express"}}
    /\ kit = InitialKit("LoginKit.tsx")
    /\ hook = "popup"
    /\ mounted = FALSE
    /\ url = NoQuery
    /\ oauth = InitialOAuthState
    /\ oauthStore = EmptyOAuthStore
    /\ loaded = [url |-> NoQuery, store |-> EmptyOAuthStore]
    /\ config = TRUE
    /\ auth = InitialState
    /\ storage = EmptyStorage
    /\ sdkReady = FALSE
    /\ flows = <<>>
    /\ openWin = 0
    /\ InitPushVars
    /\ InitUiVars

NextServe ==
    \/ ServeLogin
    \/ ServeCallbackJs
    \/ ServeLoginJsCallback
    \/ ServeExpress

SpecServe == InitServe /\ [][NextServe]_vars

(***************************************************************************)
(* Properties of the auth session.                                         *)
(***************************************************************************)
LiveListeners == {f \in 1..Len(flows) : flows[f].listener}
LiveTimers == {f \in 1..Len(flows) : flows[f].timer}

\* C1: in every reachable state the session's accessToken is non-null if and
\* only if isAuthenticated is true.
C1_TokenIffAuthenticated ==
    (auth.accessToken # NULL) <=> auth.isAuthenticated

\* C6: at most one popup flow is in flight: at most one message listener and
\* at most one closed-poll timer exist at any time (the popup window is one by
\* its name).
C6_AtMostOneFlowInFlight ==
    /\ Cardinality(LiveListeners) <= 1
    /\ Cardinality(LiveTimers) <= 1

\* C7: once a flow has handled a same-origin success message its popup is
\* closed and its closed-poll timer is cancelled, so no later tick of it can
\* touch the session.
C7_SuccessCancelsPoll ==
    \A f \in 1..Len(flows) :
        "success" \in flowLog[f].outcomes =>
            /\ PopupClosed(World, f)
            /\ ~flows[f].timer

\* C8: on every terminal outcome of a flow (success, error, manual close) both
\* its listener and its timer are unregistered, and a flow emits exactly one
\* of the three outcomes.
C8_OneOutcomeAllUnregistered ==
    \A f \in 1..Len(flows) :
        flowLog[f].outcomes # {} =>
            /\ ~flows[f].listener
            /\ ~flows[f].timer
            /\ Cardinality(flowLog[f].outcomes) = 1

ClosedBeforeMessage(f) ==
    /\ f <= Len(flows)
    /\ flowLog[f].closedByUser
    /\ ~flowLog[f].gotMessage
    /\ flows[f].timer

\* C9: when the user closes the popup of a flow before any message has reached
\* the flow, the session eventually is not loading and not authenticated
\* (unless a message reaches the flow first, or the page is reloaded).
C9_ClosedPopupLeavesAuthenticating ==
    \A f \in 1..MaxFlows :
        ClosedBeforeMessage(f) ~>
            \/ ~auth.isLoading /\ ~auth.isAuthenticated
            \/ f > Len(flows)
            \/ flowLog[f].gotMessage

C9_Witness ==
    \E f \in 1..Len(flows) :
        /\ flowLog[f].closedByUser
        /\ ~flowLog[f].gotMessage
        /\ flowLog[f].outcomes = {"cancelled"}
        /\ ~auth.isLoading
        /\ ~auth.isAuthenticated

(***************************************************************************)
(* Properties of the push subscription and of its coordination with the    *)
(* auth session.                                                           *)
(***************************************************************************)
\* the three preconditions of a subscription, as Push2WebManager sees them
AllReady ==
    /\ auth.isAuthenticated
    /\ Truthy(auth.accessToken)
    /\ props.cameraKitSession # NULL
    /\ props.lensRepository # NULL

\* C2: in every reachable state under Push2WebManager, subscribed implies that
\* the session and repository flags are both true and that the auth session is
\* authenticated.
C2_SubscribedImpliesBoundAndAuthenticated ==
    status.subscribed =>
        /\ status.session
        /\ status.repository
        /\ auth.isAuthenticated

\* C3: Push2WebManager never has the provider's subscribe invoked unless, at
\* that moment, the session is authenticated with a non-empty token and the
\* render-session and repository handles are both non-null.
C3_SubscribeOnlyWhenAllReady ==
    [][provider.calls' # provider.calls => AllReady]_vars

\* C4: while the push machine is Subscribed and the three preconditions keep
\* holding, the provider's subscribe is not called again: one subscription,
\* one provider call.
C4_SubscribedExactlyOnce ==
    [][(status.subscribed /\ AllReady /\ AllReady') =>
           provider.calls' = provider.calls]_vars

\* C5: at no point do two provider subscriptions exist for one push machine.
C5_NoTwoProviderSubscriptions ==
    Cardinality(provider.live) <= 1

\* C10: a subscribe call with an empty or absent token returns false with the
\* missing-token error in status.error, does not invoke the provider's
\* subscribe, and leaves the subscribed flag and the handle unchanged.
C10_MissingTokenFailsFast ==
    [][(called' # called /\ called'.op = "subscribe" /\ ~Truthy(called'.token)) =>
           /\ returned' = "false"
           /\ status'.error = "Access token required"
           /\ provider'.calls = provider.calls
           /\ status'.subscribed = status.subscribed
           /\ subscriptionRef' = subscriptionRef]_vars

(***************************************************************************)
(* Properties of the stored session.                                       *)
(***************************************************************************)
\* C11: what a reload would restore is the session as it stands: while the
\* session is authenticated the restore effect, run on the storage of this
\* moment, gives an authenticated session with the same token and the same
\* user; while it is not, the restore effect gives no session.
C11_ReloadRestoresSession ==
    LET restored == RestoreSession(storage).auth IN
    IF auth.isAuthenticated
    THEN /\ restored.isAuthenticated
         /\ restored.accessToken = auth.accessToken
         /\ restored.user = auth.user
    ELSE ~restored.isAuthenticated

\* a stored pair the restore effect takes up and JSON.parse throws on
CorruptStored(savedToken, savedUser) ==
    Truthy(savedToken) /\ Truthy(savedUser) /\ ~JSONparses(savedUser)

RedirectMount == hook = "redirect" /\ ~mounted /\ mounted'

C14_RedirectErrorLeavesUnauthenticated ==
    [][(RedirectMount /\ url.error # NULL) =>
           /\ ~oauth'.isLoggedIn
           /\ oauth'.error = url.error
           /\ url' = NoQuery]_vars

\* C24: the redirect build, mounted on a page whose query has oauth_success
\* and an access_token but a user_info that does not parse, ends with the
\* error 'Invalid user data' and not logged in.
C24_UnparsableUserInfoFails ==
    [][(/\ RedirectMount
        /\ url.error = NULL
        /\ url.oauth_success # NULL
        /\ url.access_token # NULL
        /\ ~UserInfoParses(url.user_info)) =>
           /\ oauth'.error = "Invalid user data"
           /\ ~oauth'.isLoggedIn]_vars

\* C29: the redirect build, mounted on a page whose query carries an OAuth
\* result (an error, or oauth_success with an access_token, whether its
\* user_info parses or not), leaves the query stripped from the URL.
C29_ResultIsStrippedFromUrl ==
    [][(/\ RedirectMount
        /\ \/ url.error # NULL
           \/ url.oauth_success # NULL /\ url.access_token # NULL) =>
           url' = NoQuery]_vars

(***************************************************************************)
(* Properties of logout, cancellation and clearError in the popup build.   *)
(***************************************************************************)
\* C15: logout, from any state of the session, leaves it not authenticated
\* with token, user and error null and not loading, and with both stored
\* entries removed.
C15_LogoutResetsSession ==
    [][AuthLogout =>
           /\ ~auth'.isAuthenticated
           /\ auth'.accessToken = NULL
           /\ auth'.user = NULL
           /\ auth'.error = NULL
           /\ ~auth'.isLoading
           /\ storage'.token = NULL
           /\ storage'.user = NULL]_vars

\* logout was called while the one flow was in flight
C15_Witness ==
    /\ Len(flows) = 1
    /\ flows[1].listener
    /\ flows[1].timer
    /\ flowLog[1].outcomes = {}
    /\ ~auth.isLoading
    /\ ~auth.isAuthenticated
    /\ auth.error = NULL
    /\ storage.token = NULL

\* flow f, whose popup the user closed before any message reached it, emits
\* its cancelled outcome in this step
CancelledNow(f) ==
    /\ flowLog[f].closedByUser
    /\ ~flowLog[f].gotMessage
    /\ "cancelled" \notin flowLog[f].outcomes
    /\ f <= Len(flowLog')
    /\ "cancelled" \in flowLog'[f].outcomes

\* C16: when the user dismisses the popup, the session becomes not loading
\* and not authenticated with the error field null.
C16_CancelLeavesErrorNull ==
    [][\A f \in 1..Len(flowLog) :
          CancelledNow(f) =>
              /\ ~auth'.isLoading
              /\ ~auth'.isAuthenticated
              /\ auth'.error = NULL]_vars

\* C17: clearError sets error to null and leaves isAuthenticated, accessToken,
\* user, isLoading and the storage unchanged, from every state.
C17_ClearErrorChangesOnlyError ==
    [][AuthClearError =>
           /\ auth'.error = NULL
           /\ auth'.isAuthenticated = auth.isAuthenticated
           /\ auth'.accessToken = auth.accessToken
           /\ auth'.user = auth.user
           /\ auth'.isLoading = auth.isLoading
           /\ storage' = storage]_vars

\* the error a late poll tick set on the authenticated session has been cleared
C17_Witness ==
    /\ Len(flows) = 1
    /\ flowLog[1].outcomes = {"success", "cancelled"}
    /\ auth.isAuthenticated
    /\ auth.accessToken = "T1"
    /\ auth.error = NULL
    /\ storage.token = "T1"

(***************************************************************************)
(* Properties of the push client's life cycle.                             *)
(***************************************************************************)
\* C18: over any number of initializePush2Web calls, direct or through
\* subscribe, the client is constructed at most once and the three listeners
\* are registered once; once an instance is held it stays the one held, and
\* available stays true.
C18_InitializeIsIdempotent ==
    [][/\ provider'.constructed <= 1
       /\ provider'.listeners \in {0, 3}
       /\ push2WebRef' => (provider'.constructed = 1 /\ provider'.listeners = 3)
       /\ push2WebRef =>
             /\ push2WebRef'
             /\ provider'.constructed = provider.constructed
             /\ provider'.listeners = provider.listeners
             /\ status'.available]_vars

\* the instance has been asked for by two subscribe calls that reached the
\* provider
C18_Witness ==
    /\ push2WebRef
    /\ provider.constructed = 1
    /\ provider.listeners = 3
    /\ provider.calls = 2
    /\ status.available

\* C19: every unsubscribe call ends with the handle cleared, subscribed false
\* and connectionState 'disconnected', also when the teardown throws and when
\* no handle was held.
C19_UnsubscribeAlwaysDisconnects ==
    [][(called' # called /\ called'.op = "unsubscribe") =>
           /\ subscriptionRef' = 0
           /\ ~status'.subscribed
           /\ connectionState' = "disconnected"]_vars

\* the subscribe that a reconnect issues after its delay, for timer i
ReconnectSubscribes(i) ==
    /\ i <= Len(timers)
    /\ timers' = RemoveAt(timers, i)
    /\ called' # called
    /\ called'.op = "subscribe"

C21_ErrorEventOnlySetsError ==
    [][(called' # called /\ called'.op = "onError") =>
           /\ status'.error = called'.token
           /\ called'.token \in PushErrorEvents \cup {"Unknown Push2Web error"}
           /\ status' = [status EXCEPT !.error = called'.token]
           /\ subscriptionRef' = subscriptionRef
           /\ connectionState' = connectionState
           /\ provider' = provider]_vars

\* an error event has arrived in the middle of a subscription, which goes on
C21_Witness ==
    /\ called.op = "onError"
    /\ status.error = "transport error"
    /\ status.subscribed
    /\ subscriptionRef # 0
    /\ subscriptionRef \in provider.live
    /\ connectionState = "connected"

C23_CallbackNeedsUserAction ==
    [][/\ (kit'.loginBy = "callback" /\ kit'.logins > kit.logins) =>
              kit'.loginFlag = "click"
       /\ (kit'.seq # kit.seq /\ ~kit.userInitiated) =>
              kit' = [kit EXCEPT !.seq = kit'.seq]]_vars

(***************************************************************************)
(* Properties of the server's callback.                                    *)
(***************************************************************************)
\* C25: a callback request whose code was exchanged for a token carried a
\* state equal to the oauth_state cookie the server had issued; a request
\* with no state, no cookie or a different state is never exchanged.
C25_ExchangeOnlyAfterStateCheck ==
    server.last.exchanged =>
        /\ server.last.state # NULL
        /\ server.last.cookie # NULL
        /\ server.last.state = server.last.cookie

\* C30: the oauth_state cookie is gone after every callback request the
\* server has handled, whatever the outcome, so that no second callback can
\* be validated against it.
C30_StateIsSingleUse ==
    [][server'.last.seq # server.last.seq => server'.cookie = NULL]_vars

(***************************************************************************)
(* Properties of the popup flow's messages.                                *)
(***************************************************************************)
\* C26: when a flow handles a same-origin error message (its live listener
\* logs the outcome 'error' in this step), its popup is closed and its listener
\* removed, and the session is left not loading, not authenticated, with the
\* error the message carried.
C26_ErrorMessageFailsTheFlow ==
    [][\A f \in 1..MaxFlows + 1 :
          (/\ f <= Len(flows)
           /\ f <= Len(flows')
           /\ flows[f].listener
           /\ "error" \notin flowLog[f].outcomes
           /\ "error" \in flowLog'[f].outcomes) =>
              /\ ~flows'[f].listener
              /\ flows'[f].win # openWin'
              /\ ~auth'.isLoading
              /\ auth'.error \in ProviderErrors
              /\ ~auth'.isAuthenticated]_vars

\* a flow has ended with the provider's error and nothing else
C26_Witness ==
    \E f \in 1..Len(flows) :
        /\ flowLog[f].outcomes = {"error"}
        /\ ~flows[f].listener
        /\ openWin = 0
        /\ ~auth.isLoading
        /\ auth.error = "access_denied"
        /\ ~auth.isAuthenticated

\* C27: a loginViaPopup whose window.open returns no window ends with the
\* error 'Popup blocked' and isLoading false, and registers no message
\* listener and no closed-poll timer.
C27_BlockedPopupRegistersNothing ==
    [][(auth'.error = "Popup blocked" /\ auth.error # "Popup blocked") =>
           /\ ~auth'.isLoading
           /\ flows' = flows
           /\ openWin' = openWin]_vars

\* the popup was blocked on the first login: nothing is registered
C27_Witness ==
    /\ sdkReady
    /\ auth.error = "Popup blocked"
    /\ ~auth.isLoading
    /\ ~auth.isAuthenticated
    /\ flows = <<>>
    /\ openWin = 0
    /\ storage.state = "S"

\* C28: a message of another origin, or of a type that is neither the
\* success nor the error type, that reaches a listener changes nothing: the
\* session, the storage, the popup and every listener and timer are as
\* before.
C28_OtherMessagesAreIgnored ==
    [][(/\ Len(flowLog) >= 1
        /\ Len(flowLog') >= 1
        /\ flowLog'[1].other # flowLog[1].other) =>
           /\ auth' = auth
           /\ storage' = storage
           /\ flows' = flows
           /\ openWin' = openWin]_vars

\* a flow is still authenticating after such a message reached its listener
C28_Witness ==
    \E f \in 1..Len(flows) :
        /\ flowLog[1].other = 1
        /\ flowLog[f].outcomes = {}
        /\ flows[f].listener
        /\ flows[f].timer
        /\ flows[f].win = openWin
        /\ auth.isLoading
        /\ ~auth.isAuthenticated

(***************************************************************************)
(* Properties of session restore at mount.                                 *)
(***************************************************************************)
\* C31: a mount that finds the token entry or the user entry absent from
\* sessionStorage (and, in the redirect build, a page without a query) leaves
\* the session as it starts, unauthenticated with no error; a mount restores
\* an authenticated session only when both entries are present.
C31_RestoreNeedsBothEntries ==
    [][(~mounted /\ mounted') =>
         /\ (hook = "popup" /\ (storage.token = NULL \/ storage.user = NULL)) =>
               auth' = InitialState
         /\ (hook = "popup" /\ auth'.isAuthenticated) =>
               (storage.token # NULL /\ storage.user # NULL)
         /\ (hook = "redirect" /\ url = NoQuery
               /\ (oauthStore.oauth_token = NULL \/ oauthStore.oauth_user = NULL)) =>
               oauth' = InitialOAuthState
         /\ (hook = "redirect" /\ url = NoQuery /\ oauth'.isLoggedIn) =>
               (oauthStore.oauth_token # NULL /\ oauthStore.oauth_user # NULL)]_vars

(***************************************************************************)
(* Properties of lens delivery.                                            *)
(***************************************************************************)
\* C32: a 'lensReceived' event that reaches the mounted hook over a live
\* subscription finds one listener of each kind registered and results in one
\* call of onLensReceived, whose argument carries the event's id, name,
\* iconUrl and lensCreator and its cameraFacingPreference, or
\* 'CAMERA_FACING_UNSET' when the event carried none; lastLensReceived is that
\* argument afterwards, and nothing else of the hook changes.
C32_LensEventIsForwardedNormalized ==
    [][(called' # called /\ called'.op = "onLensReceived" /\ pushMounted) =>
           /\ provider.listeners = 3
           /\ called'.lens.id = called'.detail.id
           /\ called'.lens.name = called'.detail.name
           /\ called'.lens.iconUrl = called'.detail.iconUrl
           /\ called'.lens.lensCreator = called'.detail.lensCreator
           /\ called'.detail.cameraFacingPreference = NULL =>
                  called'.lens.cameraFacingPreference = "CAMERA_FACING_UNSET"
           /\ called'.detail.cameraFacingPreference = "CAMERA_FACING_BACK" =>
                  called'.lens.cameraFacingPreference = "CAMERA_FACING_BACK"
           /\ DOMAIN called'.lens =
                  {"id", "name", "iconUrl", "cameraFacingPreference", "lensCreator"}
           /\ lastLensReceived' = called'.lens
           /\ status' = status
           /\ connectionState' = connectionState
           /\ subscriptionRef' = subscriptionRef
           /\ provider' = provider]_vars

\* a lens that named no camera has arrived while the hook was subscribed
C32_Witness ==
    /\ called.op = "onLensReceived"
    /\ called.detail.cameraFacingPreference = NULL
    /\ lastLensReceived.cameraFacingPreference = "CAMERA_FACING_UNSET"
    /\ lastLensReceived.id = "L1"
    /\ status.subscribed
    /\ subscriptionRef \in provider.live
    /\ pushMounted

(***************************************************************************)
(* Properties of teardown.                                                 *)
(***************************************************************************)
\* C33: the unmount of the push hook leaves no subscription handle held and
\* no subscription live at the provider, and after it nothing fires that
\* calls the provider's subscribe, creates a subscription or stores a handle.
C33_TeardownLeavesNothingPending ==
    [][/\ (pushMounted /\ ~pushMounted') =>
             (subscriptionRef' = 0 /\ provider'.live = {})
       /\ ~pushMounted =>
             /\ provider'.calls = provider.calls
             /\ provider'.live = provider.live
             /\ subscriptionRef' = subscriptionRef]_vars

(***************************************************************************)
(* Properties of the user-interaction flag of the embedded button.         *)
(***************************************************************************)
\* C34: in the build of LoginKit that keeps the user-interaction flag, the
\* flag goes from unset to set only by a click, and every step that completes
\* a login (an onLogin call, made by the SDK callback or by the postMessage
\* success handler) leaves the flag unset.
C34_FlagIsSetByClickClearedByLogin ==
    [][kit.build = "part_003" =>
         /\ (kit'.userInitiated /\ ~kit.userInitiated) => kit'.flagSetBy = "click"
         /\ kit'.logins > kit.logins => ~kit'.userInitiated]_vars

(***************************************************************************)
(* Properties of logout during a popup flow.                               *)
(***************************************************************************)
\* C35: once logout has been called while the first popup flow had emitted
\* no outcome yet, no step in which that flow emits one (its listener handles
\* a success or an error message, or its poll finds the popup closed) leaves
\* the session authenticated, a token in storage or an error set.
C35_LogoutEndsFlowInFlight ==
    [][(/\ Len(flowLog) >= 1
        /\ Len(flowLog') >= 1
        /\ flowLog[1].loggedOut
        /\ flowLog'[1].outcomes # flowLog[1].outcomes) =>
           /\ ~auth'.isAuthenticated
           /\ storage'.token = NULL
           /\ auth'.error = NULL]_vars

(***************************************************************************)
(* Properties of 'Logout & Disconnect'.                                    *)
(***************************************************************************)
\* C36: a timer that was pending when handleLogout ran (the delay of a
\* reconnect, the delayed subscribe of handleLogin) does not have the
\* provider's subscribe invoked when it fires afterwards.
C36_NoSubscribeFromBeforeLogout ==
    [][\A i \in 1..MaxTimers + 1 :
          (/\ i <= Len(timers)
           /\ timers[i].beforeLogout
           /\ timers' = RemoveAt(timers, i)) =>
              provider'.calls = provider.calls]_vars

(***************************************************************************)
(* Properties of the subscription handle.                                  *)
(***************************************************************************)
\* C37: a handle never leaves subscriptionRef (replaced by another handle, or
\* cleared) while the subscription it stands for is still live at the
\* provider, and every live subscription is the one whose handle is held.
C37_NoHandleDroppedWithoutTeardown ==
    [][/\ (subscriptionRef # 0 /\ subscriptionRef' # subscriptionRef) =>
              subscriptionRef \notin provider'.live
       /\ provider'.live \subseteq {subscriptionRef'}]_vars

\* C38: in every state between two handler runs, status.subscribed is true
\* if and only if subscriptionRef holds a handle.
C38_SubscribedIffHandleHeld ==
    status.subscribed <=> (subscriptionRef # 0)

(***************************************************************************)
(* Properties of the auto-subscribe effect.                                *)
(***************************************************************************)
\* C39: when the last run of the auto-subscribe effect called subscribe and
\* the provider rejected it, the next run of the effect does not call
\* subscribe again unless the session or the props have changed since.
C39_RejectedAutoSubscribeIsNotRepeated ==
    [][(/\ called.op = "autoSubscribe"
        /\ called.token = "false"
        /\ renderPending
        /\ provider'.calls # provider.calls) =>
           (auth' # auth \/ props' # props)]_vars

(***************************************************************************)
(* Properties of the user of a redirect login.                             *)
(***************************************************************************)
\* C40: the redirect build, mounted on a page whose query carries a
\* successful callback (oauth_success, an access_token, no error, a user_info
\* that parses or none), ends with the session's user equal to the user the
\* callback carried and the stored user entry equal to its JSON text, or with
\* both absent when the callback carried no user.
C40_UserIsTheCallbacksUser ==
    [][(/\ RedirectMount
        /\ url.error = NULL
        /\ url.oauth_success # NULL
        /\ url.access_token # NULL
        /\ UserInfoParses(url.user_info)) =>
           /\ oauth'.user = ParsedUserInfo(url.user_info)
           /\ oauthStore'.oauth_user =
                  IF ParsedUserInfo(url.user_info) = NULL THEN NULL
                  ELSE JSONstringify(ParsedUserInfo(url.user_info))]_vars

====
